---- MODULE Spec2Model ----
(***************************************************************************)
(* Model of db/pushredisdb.go (PushRedisDB): the Redis-backed persistence  *)
(* layer of uniqush-push.  The Redis store is a map from string keys to    *)
(* values; every client call (Get, Set, Del, Incr, Decr, Sadd, Srem) is    *)
(* one atomic step.  A handler that issues several client calls is one     *)
(* action per call, so that callers interleave exactly where goroutines    *)
(* sharing the client can.                                                 *)
(*                                                                         *)
(* Strings are sequences of tokens, ":" being the separator character, so  *)
(* that building a key is concatenation, as in the code, and two different *)
(* (service, subscriber) pairs can build the same key.                     *)
(***************************************************************************)
EXTENDS Integers, Sequences, FiniteSets, Bags, TLC

VARIABLES
    store,   \* the Redis keyspace: key -> string value, integer or set
    pc,      \* per caller: "idle", or the client call its handler issues next
    call,    \* per caller: the handler running, or the last one that ran
    err,     \* per caller: the error the last handler returned ("nil": none)
    i,       \* per caller: RemoveDeliveryPointFromServiceSubscriber's i, <<>> before Decr
    ret,     \* per caller: the entity GetDeliveryPoint returned, <<>> for nil
    pre,     \* observer: the keyspace when the single caller's handler began
    repeat,  \* observer: the handler and arguments equal the previous call's
    obs      \* observer: what the single caller's client calls did so far

vars == <<store, pc, call, err, i, ret, pre, repeat, obs>>

---------------------------------------------------------------------------
(* Bounds and name universes *)

NumDeliveryPoints == 2

\* Cap of a counter's distance from 0 where failing calls let it drift without limit.
MaxCounter == 2

\* Callers sharing the client; a single caller is caller 1.
Callers == {1, 2}

\* Service and subscriber names; "app1:x" and "x:alice" contain the separator.
Services == {<<"app1">>, <<"app1", ":", "x">>}
Subscribers == {<<"alice">>, <<"x", ":", "alice">>}

\* Names without the separator, used where callers interleave.
PlainServices == {<<"app1">>}
PlainSubscribers == {<<"alice">>, <<"bob">>}

DeliveryPoints == {<<"d" \o ToString(n)>> : n \in 1..NumDeliveryPoints}

\* Delivery point names used where callers interleave or store calls fail.
FewDeliveryPoints == {<<"d1">>, <<"d2">>}

\* The wildcard argument of a lookup.
Star == <<"*">>

\* Opaque payload of a delivery point (provider-specific data).
Payloads == {"tok"}

\* A push.DeliveryPoint: its name and its payload.
DeliveryPointEntities == [name : DeliveryPoints, data : Payloads]

\* Names of push service providers.
PushServiceProviders == {<<"pspA">>, <<"pspB">>}

\* A push.PushServiceProvider: its name and its payload.
PushServiceProviderEntities == [name : PushServiceProviders, data : Payloads]

---------------------------------------------------------------------------
(* Key layout *)

DELIVERY_POINT_PREFIX == <<"delivery.point", ":">>
SERVICE_SUBSCRIBER_TO_DELIVERY_POINTS_PREFIX == <<"srv.sub-2-dp", ":">>
DELIVERY_POINT_COUNTER_PREFIX == <<"delivery.point.counter", ":">>

DeliveryPointKey(name) == DELIVERY_POINT_PREFIX \o name

CounterKey(dp) == DELIVERY_POINT_COUNTER_PREFIX \o dp

ServiceSubscriberKey(srv, sub) ==
    SERVICE_SUBSCRIBER_TO_DELIVERY_POINTS_PREFIX \o srv \o <<":">> \o sub

PUSH_SERVICE_PROVIDER_PREFIX == <<"push.service.provider", ":">>
SERVICE_DELIVERY_POINT_TO_PUSH_SERVICE_PROVIDER_PREFIX == <<"srv.dp-2-psp", ":">>
SERVICE_TO_PUSH_SERVICE_PROVIDERS_PREFIX == <<"srv-2-psp", ":">>

PushServiceProviderKey(name) == PUSH_SERVICE_PROVIDER_PREFIX \o name
ServiceDeliveryPointKey(srv, dp) ==
    SERVICE_DELIVERY_POINT_TO_PUSH_SERVICE_PROVIDER_PREFIX \o srv \o <<":">> \o dp
ServiceKey(srv) == SERVICE_TO_PUSH_SERVICE_PROVIDERS_PREFIX \o srv

---------------------------------------------------------------------------
(* The Redis client calls the handlers use, as functions of the keyspace. *)
(* A missing key is a key outside DOMAIN st.                              *)

EmptyStore == [k \in {} |-> 0]

Put(st, k, v) == [x \in (DOMAIN st) \cup {k} |-> IF x = k THEN v ELSE st[x]]

\* client.Get: <<>> for a nil reply, <<value>> otherwise.
Get(st, k) == IF k \in DOMAIN st THEN <<st[k]>> ELSE <<>>

\* client.Set
Set(st, k, v) == Put(st, k, v)

\* client.Del
Del(st, k) == [x \in (DOMAIN st) \ {k} |-> st[x]]

\* client.Smembers: a missing key is the empty set.
Smembers(st, k) == IF k \in DOMAIN st THEN st[k] ELSE {}

\* client.Sadd: the keyspace after the call, and the bool it returns.
Sadd(st, k, m) == Put(st, k, Smembers(st, k) \cup {m})
SaddAdded(st, k, m) == m \notin Smembers(st, k)

\* client.Srem: Redis drops a set key with its last member.
Srem(st, k, m) ==
    IF Smembers(st, k) \ {m} = {} THEN Del(st, k)
    ELSE Put(st, k, Smembers(st, k) \ {m})
SremRemoved(st, k, m) == m \in Smembers(st, k)

\* The integer INCR / DECR read: a missing key counts as 0.
IntValue(st, k) == IF k \in DOMAIN st THEN st[k] ELSE 0

\* client.Incr / client.Decr: the new value is stored and returned.
Incr(st, k) == Put(st, k, IntValue(st, k) + 1)
Decr(st, k) == Put(st, k, IntValue(st, k) - 1)

---------------------------------------------------------------------------
(* Entity codec *)

\* dp.Marshal(): the bytes stored for a delivery point.
deliveryPointToValue(dp) == <<dp.name, dp.data>>

\* psp.Marshal(): the bytes stored for a push service provider.
pushServiceProviderToValue(psp) == <<psp.name, psp.data>>

\* Bytes that are no entity's Marshal().
Malformed == <<"garbage">>

\* psm.BuildDeliveryPointFromBytes: the entity the bytes encode, or a
\* decoding failure; with a failure it may hand out what it built so far.
BuildDeliveryPointFromBytes(value) ==
    IF Len(value) = 2 /\ <<value[1], value[2]>> \in DeliveryPoints \X Payloads
    THEN [dp |-> <<[name |-> value[1], data |-> value[2]]>>, err |-> "nil"]
    ELSE [dp |-> <<[name |-> <<>>, data |-> "partial"]>>, err |-> "decode"]

\* psm.BuildPushServiceProviderFromBytes: likewise.
BuildPushServiceProviderFromBytes(value) ==
    IF Len(value) = 2 /\ <<value[1], value[2]>> \in PushServiceProviders \X Payloads
    THEN [dp |-> <<[name |-> value[1], data |-> value[2]]>>, err |-> "nil"]
    ELSE [dp |-> <<[name |-> <<>>, data |-> "partial"]>>, err |-> "decode"]

\* Mutant of keyValueToDeliveryPoint: what the builder hands out is
\* returned as it is.
keyValueToDeliveryPoint_KeepsDp(name, value) == BuildDeliveryPointFromBytes(value)

\* keyValueToDeliveryPoint: dp is nil whenever err is not.
keyValueToDeliveryPoint(name, value) ==
    LET r == BuildDeliveryPointFromBytes(value)
    IN  IF r.err # "nil" THEN [dp |-> <<>>, err |-> r.err] ELSE r

\* keyValueToPushServiceProvider: psp is nil whenever err is not.
keyValueToPushServiceProvider(name, value) ==
    LET r == BuildPushServiceProviderFromBytes(value)
    IN  IF r.err # "nil" THEN [dp |-> <<>>, err |-> r.err] ELSE r

\* What GetDeliveryPoint returns on a keyspace when client.Get succeeds.
GetDeliveryPointResult(st, name) ==
    LET b == Get(st, DeliveryPointKey(name))
    IN  IF b = <<>> THEN [dp |-> <<>>, err |-> "nil"]
        ELSE keyValueToDeliveryPoint(name, b[1])

\* What GetPushServiceProvider returns on a keyspace when client.Get succeeds.
GetPushServiceProviderResult(st, name) ==
    LET b == Get(st, PushServiceProviderKey(name))
    IN  IF b = <<>> THEN [dp |-> <<>>, err |-> "nil"]
        ELSE keyValueToPushServiceProvider(name, b[1])

---------------------------------------------------------------------------
(* Handlers *)

NoCall == [op |-> "none", srv |-> <<>>, sub |-> <<>>, dp |-> <<>>]

\* Nothing observed yet: no client call issued, none faulted, no earlier error.
NoObs == [ncalls |-> 0, fault |-> FALSE, prevErr |-> "nil"]

Init ==
    /\ store = EmptyStore
    /\ pc = [p \in Callers |-> "idle"]
    /\ call = [p \in Callers |-> NoCall]
    /\ err = [p \in Callers |-> "nil"]
    /\ i = [p \in Callers |-> <<>>]
    /\ ret = [p \in Callers |-> <<>>]
    /\ pre = EmptyStore
    /\ repeat = FALSE
    /\ obs = NoObs

\* Entry of a handler: the caller is not inside another one.
Begin(p, c) ==
    /\ pc[p] = "idle"
    /\ call' = [call EXCEPT ![p] = c]
    /\ i' = [i EXCEPT ![p] = <<>>]
    /\ ret' = [ret EXCEPT ![p] = <<>>]

\* return e
Return(p, e) ==
    /\ pc' = [pc EXCEPT ![p] = "idle"]
    /\ err' = [err EXCEPT ![p] = e]

\* Fall through to the next client call of the handler.
Goto(p, label) ==
    /\ pc' = [pc EXCEPT ![p] = label]
    /\ err' = [err EXCEPT ![p] = "nil"]

\* SetDeliveryPoint: one client.Set; ok is whether the store call succeeds.
SetDeliveryPoint(p, dp, ok) ==
    /\ Begin(p, [op |-> "SetDeliveryPoint", srv |-> <<>>, sub |-> <<>>, dp |-> dp.name])
    /\ IF ok
       THEN /\ store' = Set(store, DeliveryPointKey(dp.name), deliveryPointToValue(dp))
            /\ Return(p, "nil")
       ELSE /\ store' = store
            /\ Return(p, "Set failed")

\* RemoveDeliveryPoint: one client.Del.
RemoveDeliveryPoint(p, dp, ok) ==
    /\ Begin(p, [op |-> "RemoveDeliveryPoint", srv |-> <<>>, sub |-> <<>>, dp |-> dp])
    /\ IF ok
       THEN /\ store' = Del(store, DeliveryPointKey(dp))
            /\ Return(p, "nil")
       ELSE /\ store' = store
            /\ Return(p, "RemoveDP failed")

\* GetDeliveryPoint: one client.Get, then the decoding.
GetDeliveryPoint(p, name, ok) ==
    /\ pc[p] = "idle"
    /\ call' = [call EXCEPT ![p] =
                   [op |-> "GetDeliveryPoint", srv |-> <<>>, sub |-> <<>>, dp |-> name]]
    /\ i' = [i EXCEPT ![p] = <<>>]
    /\ store' = store
    /\ IF ok
       THEN /\ ret' = [ret EXCEPT ![p] = GetDeliveryPointResult(store, name).dp]
            /\ Return(p, GetDeliveryPointResult(store, name).err)
       ELSE /\ ret' = [ret EXCEPT ![p] = <<>>]
            /\ Return(p, "GetDeliveryPoint failed")

---------------------------------------------------------------------------
(* GetDeliveryPointsNameByServiceSubscriber *)

\* strings.Contains(s, "*")
ContainsStar(s) == \E n \in 1..Len(s) : s[n] = "*"

\* strings.Split(s, ":"): the fields between the separators, in order.
RECURSIVE Split(_)
Split(s) ==
    IF s = <<>> THEN << <<>> >>
    ELSE LET r == Split(Tail(s))
         IN  IF Head(s) = ":" THEN << <<>> >> \o r
             ELSE << <<Head(s)>> \o r[1] >> \o Tail(r)

\* Redis glob matching of a key against a pattern; "*" matches any run of
\* characters, the separator included.
RECURSIVE Match(_, _)
Match(pat, k) ==
    IF pat = <<>> THEN k = <<>>
    ELSE IF Head(pat) = "*"
         THEN Match(Tail(pat), k) \/ (k # <<>> /\ Match(pat, Tail(k)))
         ELSE k # <<>> /\ Head(k) = Head(pat) /\ Match(Tail(pat), Tail(k))

\* client.Keys(pattern): the existing keys that match.
Keys(st, pat) == {k \in DOMAIN st : Match(pat, k)}

\* Lines 170-180: the keys the loop visits.  Without a wildcard it is the
\* one composite key, whether it exists or not.
ListedKeys(st, srv, usr) ==
    IF ~ContainsStar(usr) /\ ~ContainsStar(srv)
    THEN {ServiceSubscriberKey(srv, usr)}
    ELSE Keys(st, ServiceSubscriberKey(srv, usr))

\* Mutant of Gather: the map is keyed by the third field of the key.
RECURSIVE Gather_ThirdField(_, _, _)
Gather_ThirdField(st, keys, acc) ==
    IF keys = {} THEN acc
    ELSE LET k == CHOOSE x \in keys : TRUE
             m == Smembers(st, k)
             s == Split(k)[3]
         IN  Gather_ThirdField(st, keys \ {k},
                 IF m = {} THEN acc
                 ELSE Put(acc, s, (IF s \in DOMAIN acc THEN acc[s] ELSE EmptyBag)
                                  (+) SetToBag(m)))

\* Lines 182-201: the loop over the keys.  ret maps elem[1] of each key
\* with members to the members appended so far; a list whose order the
\* store decides is a bag.
RECURSIVE Gather(_, _, _)
Gather(st, keys, acc) ==
    IF keys = {} THEN acc
    ELSE LET k == CHOOSE x \in keys : TRUE
             m == Smembers(st, k)
             s == Split(k)[2]
         IN  Gather(st, keys \ {k},
                 IF m = {} THEN acc
                 ELSE Put(acc, s, (IF s \in DOMAIN acc THEN acc[s] ELSE EmptyBag)
                                  (+) SetToBag(m)))

\* GetDeliveryPointsNameByServiceSubscriber: client.Keys and one
\* client.Smembers per key; ok is whether all of them succeed.
GetDeliveryPointsNameByServiceSubscriber(p, srv, usr, ok) ==
    /\ pc[p] = "idle"
    /\ call' = [call EXCEPT ![p] =
                   [op |-> "GetDeliveryPointsNameByServiceSubscriber",
                    srv |-> srv, sub |-> usr, dp |-> <<>>]]
    /\ i' = [i EXCEPT ![p] = <<>>]
    /\ store' = store
    /\ IF ok
       THEN /\ ret' = [ret EXCEPT ![p] =
                          <<Gather(store, ListedKeys(store, srv, usr), EmptyStore)>>]
            /\ Return(p, "nil")
       ELSE /\ ret' = [ret EXCEPT ![p] = <<>>]
            /\ Return(p, "GetDPsNameByServiceSubscriber failed")

---------------------------------------------------------------------------
(* AddDeliveryPointToServiceSubscriber, RemoveDeliveryPointFromServiceSubscriber *)

\* Mutant of AddSadd: the test of Sadd's bool is dropped.
AddSadd_NoAddedTest(p, srv, sub, dp, ok) ==
    /\ Begin(p, [op |-> "AddDeliveryPointToServiceSubscriber",
                 srv |-> srv, sub |-> sub, dp |-> dp])
    /\ IF ~ok
       THEN /\ store' = store
            /\ Return(p, "AddDPToServiceSubscriber failed")
       ELSE /\ store' = Sadd(store, ServiceSubscriberKey(srv, sub), dp)
            /\ Goto(p, "Incr")

\* AddDeliveryPointToServiceSubscriber, lines 217-223: Sadd, and the
\* early return when the member was already there.
AddSadd(p, srv, sub, dp, ok) ==
    /\ Begin(p, [op |-> "AddDeliveryPointToServiceSubscriber",
                 srv |-> srv, sub |-> sub, dp |-> dp])
    /\ IF ~ok
       THEN /\ store' = store
            /\ Return(p, "AddDPToServiceSubscriber failed")
       ELSE /\ store' = Sadd(store, ServiceSubscriberKey(srv, sub), dp)
            /\ IF SaddAdded(store, ServiceSubscriberKey(srv, sub), dp)
               THEN Goto(p, "Incr")
               ELSE Return(p, "nil")

\* Mutant of AddIncr: a failed Incr takes the member out of the set again.
AddIncr_Rollback(p, ok) ==
    /\ pc[p] = "Incr"
    /\ UNCHANGED <<call, i, ret>>
    /\ IF ok
       THEN /\ store' = Incr(store, CounterKey(call[p].dp))
            /\ Return(p, "nil")
       ELSE /\ store' = Srem(store, ServiceSubscriberKey(call[p].srv, call[p].sub),
                             call[p].dp)
            /\ Return(p, "AddDPToServiceSubscriber count tracking failed")

\* Mutant of AddIncr: a failed Incr is issued again.
AddIncr_Retry(p, ok) ==
    /\ pc[p] = "Incr"
    /\ UNCHANGED <<call, i, ret>>
    /\ IF ok
       THEN /\ store' = Incr(store, CounterKey(call[p].dp))
            /\ Return(p, "nil")
       ELSE /\ store' = store
            /\ Goto(p, "Incr")

\* AddDeliveryPointToServiceSubscriber, lines 224-228: Incr of the counter.
AddIncr(p, ok) ==
    /\ pc[p] = "Incr"
    /\ UNCHANGED <<call, i, ret>>
    /\ IF ok
       THEN /\ store' = Incr(store, CounterKey(call[p].dp))
            /\ Return(p, "nil")
       ELSE /\ store' = store
            /\ Return(p, "AddDPToServiceSubscriber count tracking failed")

\* Mutant of RemoveSrem: the test of Srem's bool is dropped.
RemoveSrem_NoRemovedTest(p, srv, sub, dp, ok) ==
    /\ Begin(p, [op |-> "RemoveDeliveryPointFromServiceSubscriber",
                 srv |-> srv, sub |-> sub, dp |-> dp])
    /\ IF ~ok
       THEN /\ store' = store
            /\ Return(p, "Removing the delivery point pointer failed")
       ELSE /\ store' = Srem(store, ServiceSubscriberKey(srv, sub), dp)
            /\ Goto(p, "Decr")

\* RemoveDeliveryPointFromServiceSubscriber, lines 232-238: Srem, and the
\* early return when the member was not there.
RemoveSrem(p, srv, sub, dp, ok) ==
    /\ Begin(p, [op |-> "RemoveDeliveryPointFromServiceSubscriber",
                 srv |-> srv, sub |-> sub, dp |-> dp])
    /\ IF ~ok
       THEN /\ store' = store
            /\ Return(p, "Removing the delivery point pointer failed")
       ELSE /\ store' = Srem(store, ServiceSubscriberKey(srv, sub), dp)
            /\ IF SremRemoved(store, ServiceSubscriberKey(srv, sub), dp)
               THEN Goto(p, "Decr")
               ELSE Return(p, "nil")

\* Mutant of RemoveDecr: the cascade is entered on i < 0 only.
RemoveDecr_StrictTest(p, ok) ==
    /\ pc[p] = "Decr"
    /\ UNCHANGED <<call, ret>>
    /\ IF ok
       THEN /\ store' = Decr(store, CounterKey(call[p].dp))
            /\ i' = [i EXCEPT ![p] = <<IntValue(store', CounterKey(call[p].dp))>>]
            /\ IF IntValue(store', CounterKey(call[p].dp)) < 0
               THEN Goto(p, "DelCounter")
               ELSE Return(p, "nil")
       ELSE /\ store' = store
            /\ i' = i
            /\ Return(p, "Failed to decrement number of subscribers")

\* Mutant of RemoveDecr: a failed Decr puts the member back into the set.
RemoveDecr_Rollback(p, ok) ==
    /\ pc[p] = "Decr"
    /\ UNCHANGED <<call, ret>>
    /\ IF ok
       THEN /\ store' = Decr(store, CounterKey(call[p].dp))
            /\ i' = [i EXCEPT ![p] = <<IntValue(store', CounterKey(call[p].dp))>>]
            /\ IF IntValue(store', CounterKey(call[p].dp)) <= 0
               THEN Goto(p, "DelCounter")
               ELSE Return(p, "nil")
       ELSE /\ store' = Sadd(store, ServiceSubscriberKey(call[p].srv, call[p].sub),
                             call[p].dp)
            /\ i' = i
            /\ Return(p, "Failed to decrement number of subscribers")

\* Lines 239-243 and 253: Decr of the counter, and the test i <= 0.
RemoveDecr(p, ok) ==
    /\ pc[p] = "Decr"
    /\ UNCHANGED <<call, ret>>
    /\ IF ok
       THEN /\ store' = Decr(store, CounterKey(call[p].dp))
            /\ i' = [i EXCEPT ![p] = <<IntValue(store', CounterKey(call[p].dp))>>]
            /\ IF IntValue(store', CounterKey(call[p].dp)) <= 0
               THEN Goto(p, "DelCounter")
               ELSE Return(p, "nil")
       ELSE /\ store' = store
            /\ i' = i
            /\ Return(p, "Failed to decrement number of subscribers")

\* Lines 244-247: Del of the counter key.
RemoveDelCounter(p, ok) ==
    /\ pc[p] = "DelCounter"
    /\ UNCHANGED <<call, i, ret>>
    /\ IF ok
       THEN /\ store' = Del(store, CounterKey(call[p].dp))
            /\ Goto(p, "DelRecord")
       ELSE /\ store' = store
            /\ Return(p, "Failed to remove counter")

\* Mutant of RemoveDelRecord: the second Del names the counter key again.
RemoveDelRecord_WrongKey(p, ok) ==
    /\ pc[p] = "DelRecord"
    /\ UNCHANGED <<call, i, ret>>
    /\ IF ok
       THEN /\ store' = Del(store, CounterKey(call[p].dp))
            /\ Return(p, "nil")
       ELSE /\ store' = store
            /\ Return(p, "Failed to remove delivery point info")

\* Lines 248-253: Del of the delivery point record.
RemoveDelRecord(p, ok) ==
    /\ pc[p] = "DelRecord"
    /\ UNCHANGED <<call, i, ret>>
    /\ IF ok
       THEN /\ store' = Del(store, DeliveryPointKey(call[p].dp))
            /\ Return(p, "nil")
       ELSE /\ store' = store
            /\ Return(p, "Failed to remove delivery point info")

---------------------------------------------------------------------------
(* Push service providers: the assignment of one to a (service, delivery   *)
(* point), the set of their names per service, and their records.          *)

\* Delivery point names of the assignments; one contains the separator.
AssignedDeliveryPoints == {<<"d1">>, <<"x", ":", "d1">>}

\* The handler a caller runs on a push service provider.
PspCall(op, srv, dp, psp) == [op |-> op, srv |-> srv, dp |-> dp, psp |-> psp]

\* GetPushServiceProviderNameByServiceDeliveryPoint: one client.Get; the
\* name returned is "" (the empty string) for a fault and for a nil reply.
GetPushServiceProviderNameByServiceDeliveryPoint(p, srv, dp, ok) ==
    /\ pc[p] = "idle"
    /\ call' = [call EXCEPT ![p] =
                   PspCall("GetPushServiceProviderNameByServiceDeliveryPoint", srv, dp, <<>>)]
    /\ i' = [i EXCEPT ![p] = <<>>]
    /\ store' = store
    /\ IF ok
       THEN LET b == Get(store, ServiceDeliveryPointKey(srv, dp))
            IN  /\ ret' = [ret EXCEPT ![p] = IF b = <<>> THEN << <<>> >> ELSE <<b[1]>>]
                /\ Return(p, "nil")
       ELSE /\ ret' = [ret EXCEPT ![p] = << <<>> >>]
            /\ Return(p, "GetPSPNameByServiceDP failed")

\* SetPushServiceProviderOfServiceDeliveryPoint: one client.Set of the name.
SetPushServiceProviderOfServiceDeliveryPoint(p, srv, dp, psp, ok) ==
    /\ Begin(p, PspCall("SetPushServiceProviderOfServiceDeliveryPoint", srv, dp, psp))
    /\ IF ok
       THEN /\ store' = Set(store, ServiceDeliveryPointKey(srv, dp), psp)
            /\ Return(p, "nil")
       ELSE /\ store' = store
            /\ Return(p, "SetPSPOfServiceDP failed")

\* Mutant of RemovePushServiceProviderOfServiceDeliveryPoint: deleting an
\* absent assignment is an error.
RemovePushServiceProviderOfServiceDeliveryPoint_AbsentIsError(p, srv, dp, ok) ==
    /\ Begin(p, PspCall("RemovePushServiceProviderOfServiceDeliveryPoint", srv, dp, <<>>))
    /\ IF ok
       THEN /\ store' = Del(store, ServiceDeliveryPointKey(srv, dp))
            /\ Return(p, IF ServiceDeliveryPointKey(srv, dp) \in DOMAIN store
                         THEN "nil" ELSE "RemovePSPOfServiceDP failed")
       ELSE /\ store' = store
            /\ Return(p, "RemovePSPOfServiceDP failed")

\* RemovePushServiceProviderOfServiceDeliveryPoint: one client.Del, whose
\* count of deleted keys is dropped.
RemovePushServiceProviderOfServiceDeliveryPoint(p, srv, dp, ok) ==
    /\ Begin(p, PspCall("RemovePushServiceProviderOfServiceDeliveryPoint", srv, dp, <<>>))
    /\ IF ok
       THEN /\ store' = Del(store, ServiceDeliveryPointKey(srv, dp))
            /\ Return(p, "nil")
       ELSE /\ store' = store
            /\ Return(p, "RemovePSPOfServiceDP failed")

\* GetPushServiceProvidersByService: one client.Smembers; nil for a nil
\* reply, else the members as a list in the order the store gave them.
GetPushServiceProvidersByService(p, srv, ok) ==
    /\ pc[p] = "idle"
    /\ call' = [call EXCEPT ![p] = PspCall("GetPushServiceProvidersByService", srv, <<>>, <<>>)]
    /\ i' = [i EXCEPT ![p] = <<>>]
    /\ store' = store
    /\ IF ok
       THEN LET m == Smembers(store, ServiceKey(srv))
            IN  /\ ret' = [ret EXCEPT ![p] = IF m = {} THEN <<>> ELSE <<SetToBag(m)>>]
                /\ Return(p, "nil")
       ELSE /\ ret' = [ret EXCEPT ![p] = <<>>]
            /\ Return(p, "GetPSPsByService failed")

\* Mutant of RemovePushServiceProviderFromService: the provider's record
\* goes with its last reference.
RemovePushServiceProviderFromService_Cascade(p, srv, psp, ok) ==
    /\ Begin(p, PspCall("RemovePushServiceProviderFromService", srv, <<>>, psp))
    /\ IF ok
       THEN /\ store' = Del(Srem(store, ServiceKey(srv), psp), PushServiceProviderKey(psp))
            /\ Return(p, "nil")
       ELSE /\ store' = store
            /\ Return(p, "RemovePSPFromService failed")

\* RemovePushServiceProviderFromService: one client.Srem.
RemovePushServiceProviderFromService(p, srv, psp, ok) ==
    /\ Begin(p, PspCall("RemovePushServiceProviderFromService", srv, <<>>, psp))
    /\ IF ok
       THEN /\ store' = Srem(store, ServiceKey(srv), psp)
            /\ Return(p, "nil")
       ELSE /\ store' = store
            /\ Return(p, "RemovePSPFromService failed")

\* SetPushServiceProvider: one client.Set.
SetPushServiceProvider(p, psp, ok) ==
    /\ Begin(p, PspCall("SetPushServiceProvider", <<>>, <<>>, psp.name))
    /\ IF ok
       THEN /\ store' = Set(store, PushServiceProviderKey(psp.name),
                            pushServiceProviderToValue(psp))
            /\ Return(p, "nil")
       ELSE /\ store' = store
            /\ Return(p, "SetPushServiceProvider failed")

\* RemovePushServiceProvider: one client.Del.
RemovePushServiceProvider(p, psp, ok) ==
    /\ Begin(p, PspCall("RemovePushServiceProvider", <<>>, <<>>, psp))
    /\ IF ok
       THEN /\ store' = Del(store, PushServiceProviderKey(psp))
            /\ Return(p, "nil")
       ELSE /\ store' = store
            /\ Return(p, "RemovePSP failed")

\* GetPushServiceProvider: one client.Get, then the decoding.
GetPushServiceProvider(p, name, ok) ==
    /\ pc[p] = "idle"
    /\ call' = [call EXCEPT ![p] = PspCall("GetPushServiceProvider", <<>>, <<>>, name)]
    /\ i' = [i EXCEPT ![p] = <<>>]
    /\ store' = store
    /\ IF ok
       THEN /\ ret' = [ret EXCEPT ![p] = GetPushServiceProviderResult(store, name).dp]
            /\ Return(p, GetPushServiceProviderResult(store, name).err)
       ELSE /\ ret' = [ret EXCEPT ![p] = <<>>]
            /\ Return(p, "GetPushServiceProvider failed")

\* Mutant of AddPushServiceProviderToService: the name replaces the set.
AddPushServiceProviderToService_Replace(p, srv, psp, ok) ==
    /\ Begin(p, PspCall("AddPushServiceProviderToService", srv, <<>>, psp))
    /\ IF ok
       THEN /\ store' = Put(store, ServiceKey(srv), {psp})
            /\ Return(p, "nil")
       ELSE /\ store' = store
            /\ Return(p, "AddPSPToService failed")

\* AddPushServiceProviderToService: one client.Sadd.
AddPushServiceProviderToService(p, srv, psp, ok) ==
    /\ Begin(p, PspCall("AddPushServiceProviderToService", srv, <<>>, psp))
    /\ IF ok
       THEN /\ store' = Sadd(store, ServiceKey(srv), psp)
            /\ Return(p, "nil")
       ELSE /\ store' = store
            /\ Return(p, "AddPSPToService failed")

\* FlushCache: one client.Save, whose error is returned as it is; the
\* keyspace is written to disk, not changed.
FlushCache(p, ok) ==
    /\ Begin(p, [op |-> "FlushCache", srv |-> <<>>, sub |-> <<>>, dp |-> <<>>])
    /\ store' = store
    /\ Return(p, IF ok THEN "nil" ELSE "Save failed")

---------------------------------------------------------------------------
(* Observer of the single caller: the keyspace a handler started from, and *)
(* whether it repeats the call before it.                                  *)

Observe(p) ==
    /\ pre' = store
    /\ repeat' = (call'[p] = call[p])
    /\ UNCHANGED obs

Unobserved == UNCHANGED <<pre, repeat, obs>>

\* The same where client calls may fault: the first client call of a handler
\* is counted, its fault noted, and the error of the call it repeats kept.
ObserveCall(p, ok) ==
    /\ pre' = store
    /\ repeat' = (call'[p] = call[p])
    /\ obs' = [ncalls |-> 1, fault |-> ~ok,
               prevErr |-> IF call'[p] = call[p] THEN err[p] ELSE "nil"]

\* A later client call of the running handler.
ObserveStep(ok) ==
    /\ UNCHANGED <<pre, repeat>>
    /\ obs' = [obs EXCEPT !.ncalls = @ + 1, !.fault = @ \/ ~ok]

---------------------------------------------------------------------------
(* Spec: a single caller, no store failures. *)

Next ==
    \/ \E dp \in DeliveryPointEntities : SetDeliveryPoint(1, dp, TRUE) /\ Observe(1)
    \/ \E dp \in DeliveryPoints : RemoveDeliveryPoint(1, dp, TRUE) /\ Observe(1)
    \/ \E dp \in DeliveryPoints : GetDeliveryPoint(1, dp, TRUE) /\ Observe(1)
    \/ \E srv \in Services \cup {Star}, usr \in Subscribers \cup {Star} :
           GetDeliveryPointsNameByServiceSubscriber(1, srv, usr, TRUE) /\ Observe(1)
    \/ \E srv \in Services, sub \in Subscribers, dp \in DeliveryPoints :
           AddSadd(1, srv, sub, dp, TRUE) /\ Observe(1)
    \/ AddIncr(1, TRUE) /\ Unobserved
    \/ \E srv \in Services, sub \in Subscribers, dp \in DeliveryPoints :
           RemoveSrem(1, srv, sub, dp, TRUE) /\ Observe(1)
    \/ RemoveDecr(1, TRUE) /\ Unobserved
    \/ RemoveDelCounter(1, TRUE) /\ Unobserved
    \/ RemoveDelRecord(1, TRUE) /\ Unobserved

Spec == Init /\ [][Next]_vars

---------------------------------------------------------------------------
(* SpecConc: two callers interleave their client calls; no store failures. *)
(* Every delivery point's record was stored before its first association.  *)

InitConc ==
    /\ store = [k \in {DeliveryPointKey(dp) : dp \in FewDeliveryPoints} |->
                   deliveryPointToValue([name |-> SubSeq(k, 3, Len(k)), data |-> "tok"])]
    /\ pc = [p \in Callers |-> "idle"]
    /\ call = [p \in Callers |-> NoCall]
    /\ err = [p \in Callers |-> "nil"]
    /\ i = [p \in Callers |-> <<>>]
    /\ ret = [p \in Callers |-> <<>>]
    /\ pre = EmptyStore
    /\ repeat = FALSE
    /\ obs = NoObs

NextConc ==
    \E p \in Callers :
        \/ \E srv \in PlainServices, sub \in PlainSubscribers, dp \in FewDeliveryPoints :
               AddSadd(p, srv, sub, dp, TRUE) /\ Unobserved
        \/ AddIncr(p, TRUE) /\ Unobserved
        \/ \E srv \in PlainServices, sub \in PlainSubscribers, dp \in FewDeliveryPoints :
               RemoveSrem(p, srv, sub, dp, TRUE) /\ Unobserved
        \/ RemoveDecr(p, TRUE) /\ Unobserved
        \/ RemoveDelCounter(p, TRUE) /\ Unobserved
        \/ RemoveDelRecord(p, TRUE) /\ Unobserved

SpecConc == InitConc /\ [][NextConc]_vars

---------------------------------------------------------------------------
(* SpecFail: a single caller; every client call may fail, and a failed     *)
(* call leaves the keyspace as it was.                                     *)

NextFail ==
    \E ok \in BOOLEAN :
        \/ \E dp \in [name : FewDeliveryPoints, data : Payloads] :
               SetDeliveryPoint(1, dp, ok) /\ ObserveCall(1, ok)
        \/ \E srv \in PlainServices, sub \in PlainSubscribers, dp \in FewDeliveryPoints :
               /\ IntValue(store, CounterKey(dp)) < MaxCounter
               /\ AddSadd(1, srv, sub, dp, ok)
               /\ ObserveCall(1, ok)
        \/ AddIncr(1, ok) /\ ObserveStep(ok)
        \/ \E srv \in PlainServices, sub \in PlainSubscribers, dp \in FewDeliveryPoints :
               /\ IntValue(store, CounterKey(dp)) > -MaxCounter
               /\ RemoveSrem(1, srv, sub, dp, ok)
               /\ ObserveCall(1, ok)
        \/ RemoveDecr(1, ok) /\ ObserveStep(ok)
        \/ RemoveDelCounter(1, ok) /\ ObserveStep(ok)
        \/ RemoveDelRecord(1, ok) /\ ObserveStep(ok)
        \/ FlushCache(1, ok) /\ ObserveCall(1, ok)

SpecFail == Init /\ [][NextFail]_vars

---------------------------------------------------------------------------
(* SpecEntity: a single caller reads, stores and removes the records of    *)
(* delivery points and push service providers; every client call may       *)
(* fault.  The keyspace is shared with other writers: at the start each    *)
(* record key is missing, holds an entity's bytes, or holds other bytes.   *)

EntityKeys ==
    {DeliveryPointKey(dp) : dp \in FewDeliveryPoints}
        \cup {PushServiceProviderKey(psp) : psp \in PushServiceProviders}

\* The bytes a record key may hold: its entity's, or malformed ones.
StoredValues(k) == {<<SubSeq(k, 3, Len(k)), "tok">>, Malformed}

InitEntity ==
    /\ store \in UNION {{f \in [K -> UNION {StoredValues(k) : k \in K}] :
                            \A k \in K : f[k] \in StoredValues(k)} :
                        K \in SUBSET EntityKeys}
    /\ pc = [p \in Callers |-> "idle"]
    /\ call = [p \in Callers |-> NoCall]
    /\ err = [p \in Callers |-> "nil"]
    /\ i = [p \in Callers |-> <<>>]
    /\ ret = [p \in Callers |-> <<>>]
    /\ pre = EmptyStore
    /\ repeat = FALSE
    /\ obs = NoObs

NextEntity ==
    \E ok \in BOOLEAN :
        \/ \E dp \in [name : FewDeliveryPoints, data : Payloads] :
               SetDeliveryPoint(1, dp, ok) /\ ObserveCall(1, ok)
        \/ \E dp \in FewDeliveryPoints : RemoveDeliveryPoint(1, dp, ok) /\ ObserveCall(1, ok)
        \/ \E dp \in FewDeliveryPoints : GetDeliveryPoint(1, dp, ok) /\ ObserveCall(1, ok)
        \/ \E psp \in PushServiceProviderEntities :
               SetPushServiceProvider(1, psp, ok) /\ ObserveCall(1, ok)
        \/ \E psp \in PushServiceProviders :
               RemovePushServiceProvider(1, psp, ok) /\ ObserveCall(1, ok)
        \/ \E psp \in PushServiceProviders :
               GetPushServiceProvider(1, psp, ok) /\ ObserveCall(1, ok)

SpecEntity == InitEntity /\ [][NextEntity]_vars

---------------------------------------------------------------------------
(* SpecAssign: a single caller sets, clears and reads the push service     *)
(* provider assigned to (service, delivery point); every client call may   *)
(* fault.  obs.assigned is, per (service, delivery point), the name of the *)
(* last successful set that no successful clear followed, <<>> if none.    *)

SETPSP == "SetPushServiceProviderOfServiceDeliveryPoint"
CLEARPSP == "RemovePushServiceProviderOfServiceDeliveryPoint"
GETPSP == "GetPushServiceProviderNameByServiceDeliveryPoint"

InitAssign ==
    /\ store = EmptyStore
    /\ pc = [p \in Callers |-> "idle"]
    /\ call = [p \in Callers |-> NoCall]
    /\ err = [p \in Callers |-> "nil"]
    /\ i = [p \in Callers |-> <<>>]
    /\ ret = [p \in Callers |-> <<>>]
    /\ pre = EmptyStore
    /\ repeat = FALSE
    /\ obs = [assigned |-> [pr \in Services \X AssignedDeliveryPoints |-> <<>>],
              fault |-> FALSE]

ObserveAssign(p, ok) ==
    /\ pre' = store
    /\ repeat' = (call'[p] = call[p])
    /\ obs' = [assigned |->
                   IF ok /\ call'[p].op = SETPSP
                   THEN [obs.assigned EXCEPT ![<<call'[p].srv, call'[p].dp>>] = <<call'[p].psp>>]
                   ELSE IF ok /\ call'[p].op = CLEARPSP
                   THEN [obs.assigned EXCEPT ![<<call'[p].srv, call'[p].dp>>] = <<>>]
                   ELSE obs.assigned,
               fault |-> ~ok]

NextAssign ==
    \E ok \in BOOLEAN, srv \in Services, dp \in AssignedDeliveryPoints :
        \/ GetPushServiceProviderNameByServiceDeliveryPoint(1, srv, dp, ok)
               /\ ObserveAssign(1, ok)
        \/ \E psp \in PushServiceProviders :
               SetPushServiceProviderOfServiceDeliveryPoint(1, srv, dp, psp, ok)
                   /\ ObserveAssign(1, ok)
        \/ RemovePushServiceProviderOfServiceDeliveryPoint(1, srv, dp, ok)
               /\ ObserveAssign(1, ok)

SpecAssign == InitAssign /\ [][NextAssign]_vars

---------------------------------------------------------------------------
(* SpecService: a single caller adds push service providers to services,   *)
(* removes and lists them, and stores and removes their records; every     *)
(* client call may fault.  The keyspace starts with a delivery point, its  *)
(* counter, an association, an assignment and a provider's record.         *)
(* obs.members is, per service, the names added by a successful call and   *)
(* not removed by a later successful one.                                  *)

ADDPSP == "AddPushServiceProviderToService"
REMOVEPSP == "RemovePushServiceProviderFromService"
LISTPSP == "GetPushServiceProvidersByService"

PopulatedStore ==
    LET dp == [name |-> <<"d1">>, data |-> "tok"]
        psp == [name |-> <<"pspA">>, data |-> "tok"]
        st1 == Set(EmptyStore, DeliveryPointKey(dp.name), deliveryPointToValue(dp))
        st2 == Set(st1, PushServiceProviderKey(psp.name), pushServiceProviderToValue(psp))
        st3 == Incr(Sadd(st2, ServiceSubscriberKey(<<"app1">>, <<"alice">>), dp.name),
                    CounterKey(dp.name))
    IN  Set(st3, ServiceDeliveryPointKey(<<"app1">>, dp.name), psp.name)

InitService ==
    /\ store = PopulatedStore
    /\ pc = [p \in Callers |-> "idle"]
    /\ call = [p \in Callers |-> NoCall]
    /\ err = [p \in Callers |-> "nil"]
    /\ i = [p \in Callers |-> <<>>]
    /\ ret = [p \in Callers |-> <<>>]
    /\ pre = PopulatedStore
    /\ repeat = FALSE
    /\ obs = [members |-> [srv \in Services |-> {}], fault |-> FALSE]

ObserveService(p, ok) ==
    /\ pre' = store
    /\ repeat' = (call'[p] = call[p])
    /\ obs' = [members |->
                   IF ok /\ call'[p].op = ADDPSP
                   THEN [obs.members EXCEPT ![call'[p].srv] = @ \cup {call'[p].psp}]
                   ELSE IF ok /\ call'[p].op = REMOVEPSP
                   THEN [obs.members EXCEPT ![call'[p].srv] = @ \ {call'[p].psp}]
                   ELSE obs.members,
               fault |-> ~ok]

NextService ==
    \E ok \in BOOLEAN, srv \in Services, psp \in PushServiceProviders :
        \/ AddPushServiceProviderToService(1, srv, psp, ok) /\ ObserveService(1, ok)
        \/ RemovePushServiceProviderFromService(1, srv, psp, ok) /\ ObserveService(1, ok)
        \/ GetPushServiceProvidersByService(1, srv, ok) /\ ObserveService(1, ok)
        \/ SetPushServiceProvider(1, [name |-> psp, data |-> "tok"], ok)
               /\ ObserveService(1, ok)
        \/ RemovePushServiceProvider(1, psp, ok) /\ ObserveService(1, ok)

SpecService == InitService /\ [][NextService]_vars

---------------------------------------------------------------------------
(* SpecFrame: a single caller adds and removes associations, no client     *)
(* call faults, on a keyspace that also holds an assignment, a service's   *)
(* set of providers and a provider's record.                               *)

FrameStore == Sadd(PopulatedStore, ServiceKey(<<"app1">>), <<"pspA">>)

InitFrame ==
    /\ store = FrameStore
    /\ pc = [p \in Callers |-> "idle"]
    /\ call = [p \in Callers |-> NoCall]
    /\ err = [p \in Callers |-> "nil"]
    /\ i = [p \in Callers |-> <<>>]
    /\ ret = [p \in Callers |-> <<>>]
    /\ pre = FrameStore
    /\ repeat = FALSE
    /\ obs = NoObs

NextFrame ==
    \/ \E srv \in Services, sub \in Subscribers, dp \in FewDeliveryPoints :
           AddSadd(1, srv, sub, dp, TRUE) /\ Observe(1)
    \/ AddIncr(1, TRUE) /\ Unobserved
    \/ \E srv \in Services, sub \in Subscribers, dp \in FewDeliveryPoints :
           RemoveSrem(1, srv, sub, dp, TRUE) /\ Observe(1)
    \/ RemoveDecr(1, TRUE) /\ Unobserved
    \/ RemoveDelCounter(1, TRUE) /\ Unobserved
    \/ RemoveDelRecord(1, TRUE) /\ Unobserved

SpecFrame == InitFrame /\ [][NextFrame]_vars

---------------------------------------------------------------------------
(* Vocabulary of the properties *)

ADD == "AddDeliveryPointToServiceSubscriber"
REMOVE == "RemoveDeliveryPointFromServiceSubscriber"

\* No handler of the caller is running.
Idle(p) == pc[p] = "idle"

Quiescent == \A p \in Callers : Idle(p)

\* The reference counter of dp, an absent key counted as 0.
Counter(st, dp) == IntValue(st, CounterKey(dp))

\* The membership set of the (service, subscriber) pair.
Membership(st, srv, sub) == Smembers(st, ServiceSubscriberKey(srv, sub))

\* The (service, subscriber) pairs whose membership set contains dp.
AssociatedPairs(st, dp) ==
    {pr \in (Services \cup PlainServices) \X (Subscribers \cup PlainSubscribers) :
        dp \in Membership(st, pr[1], pr[2])}

\* The membership-set keys whose set contains dp.
AssociatedKeys(st, dp) ==
    {ServiceSubscriberKey(pr[1], pr[2]) : pr \in AssociatedPairs(st, dp)}

\* The membership set the caller's current call names.
CallKey(p) == ServiceSubscriberKey(call[p].srv, call[p].sub)

HasRecord(st, dp) == DeliveryPointKey(dp) \in DOMAIN st
HasCounter(st, dp) == CounterKey(dp) \in DOMAIN st

---------------------------------------------------------------------------
(* C1 *)

\* C1: single caller, no store failures: after every completed operation
\* the counter of each delivery point (absent = 0) equals the number of
\* distinct (service, subscriber) pairs whose membership set contains it.
C1_CounterEqualsPairs ==
    Idle(1) =>
        \A dp \in DeliveryPoints :
            Counter(store, dp) = Cardinality(AssociatedPairs(store, dp))

\* What the code maintains instead: the counter equals the number of
\* membership-set keys whose set contains the delivery point; pairs whose
\* names concatenate to the same key share one set and count once.
CounterEqualsAssociatedKeys ==
    Idle(1) =>
        \A dp \in DeliveryPoints :
            Counter(store, dp) = Cardinality(AssociatedKeys(store, dp))

---------------------------------------------------------------------------
(* C2 *)

\* C2: when a removeAssociation brings the counter to 0, then after it
\* returned the counter key and the DeliveryPoint record are absent and
\* getDeliveryPoint on that name returns no entity and no failure.
C2_CascadeDeletesCounterAndRecord ==
    (Idle(1) /\ call[1].op = REMOVE /\ i[1] = <<0>>) =>
        /\ err[1] = "nil"
        /\ ~HasCounter(store, call[1].dp)
        /\ ~HasRecord(store, call[1].dp)
        /\ GetDeliveryPointResult(store, call[1].dp) = [dp |-> <<>>, err |-> "nil"]

\* A cascade that had a stored record to delete.
C2_Witness ==
    /\ Idle(1) /\ call[1].op = REMOVE /\ i[1] = <<0>>
    /\ HasRecord(pre, call[1].dp)
    /\ Counter(pre, call[1].dp) = 1

---------------------------------------------------------------------------
(* C3 *)

\* C3: addAssociation is idempotent: a completed call raised the counter by
\* one if it inserted the member and not at all otherwise, and a call that
\* repeats the call before it leaves the store as that call left it and
\* reports success.
C3_AddIdempotent ==
    (Idle(1) /\ call[1].op = ADD) =>
        /\ Counter(store, call[1].dp) =
               Counter(pre, call[1].dp) +
               (IF call[1].dp \in Smembers(pre, CallKey(1)) THEN 0 ELSE 1)
        /\ call[1].dp \in Smembers(store, CallKey(1))
        /\ repeat => (store = pre /\ err[1] = "nil")

\* The second of two identical calls, the first of which inserted the member.
C3_Witness ==
    /\ Idle(1) /\ call[1].op = ADD /\ repeat
    /\ Counter(store, call[1].dp) = 1
    /\ Cardinality(AssociatedKeys(store, call[1].dp)) = 1

---------------------------------------------------------------------------
(* C4 *)

\* C4: removeAssociation of a delivery point that the membership set does
\* not contain returns success and leaves the set, the counter and the
\* record (the whole store) unchanged.
C4_RemoveAbsentIsNoOp ==
    (Idle(1) /\ call[1].op = REMOVE /\ call[1].dp \notin Smembers(pre, CallKey(1))) =>
        /\ err[1] = "nil"
        /\ store = pre

\* Removing from a set without the member while the delivery point has a
\* counter and a record that a decrement or a cascade would change.
C4_Witness ==
    /\ Idle(1) /\ call[1].op = REMOVE
    /\ call[1].dp \notin Smembers(pre, CallKey(1))
    /\ Counter(pre, call[1].dp) = 1
    /\ HasRecord(pre, call[1].dp)

---------------------------------------------------------------------------
(* C5 *)

\* C5: in every reachable state, also between the client calls of
\* interleaving callers, every counter that is present is >= 0.
C5_CounterNeverNegative ==
    \A dp \in FewDeliveryPoints :
        HasCounter(store, dp) => store[CounterKey(dp)] >= 0

---------------------------------------------------------------------------
(* C6 *)

\* No record under a name whose counter is 0 or absent.
NoUnreferencedRecord(st) ==
    \A dp \in DeliveryPoints : Counter(st, dp) = 0 => ~HasRecord(st, dp)

\* C6 as stated: after every completed operation, a delivery point whose
\* counter is 0 or absent has no record.
C6_NoUnreferencedRecord ==
    Idle(1) => NoUnreferencedRecord(store)

\* C6 as amended: every completed operation other than setDeliveryPoint
\* that began where no unreferenced record existed ends where none exists.
C6_OnlySetDeliveryPointLeavesUnreferencedRecord ==
    (Idle(1) /\ call[1].op # "SetDeliveryPoint" /\ NoUnreferencedRecord(pre)) =>
        NoUnreferencedRecord(store)

\* A removeAssociation that took the last reference of a stored record.
C6_Witness ==
    /\ Idle(1) /\ call[1].op = REMOVE
    /\ NoUnreferencedRecord(pre)
    /\ HasRecord(pre, call[1].dp)
    /\ ~HasCounter(store, call[1].dp)

---------------------------------------------------------------------------
(* C7 *)

\* C7: whenever no operation is in flight, the counter (absent = 0) equals
\* the number of (service, subscriber) pairs whose set contains the
\* delivery point.
C7_QuiescentCounterEqualsPairs ==
    Quiescent =>
        \A dp \in DeliveryPoints :
            Counter(store, dp) = Cardinality(AssociatedPairs(store, dp))

---------------------------------------------------------------------------
(* C8 *)

\* C8: whenever no operation is in flight and some membership set contains
\* the delivery point, its record (stored before its first association)
\* is still there.
C8_ReferencedRecordKept ==
    Quiescent =>
        \A dp \in DeliveryPoints :
            AssociatedPairs(store, dp) # {} => HasRecord(store, dp)

---------------------------------------------------------------------------
(* C9 *)

\* C9: addAssociation under store failures: a failed Sadd reports failure
\* and changes nothing; a failed Incr after an inserting Sadd reports
\* failure, keeps the member in the set and leaves the counter unchanged,
\* one below the number of associations if it matched before; success is
\* reported only when every call of the handler took effect.
C9_AddFailureSemantics ==
    (Idle(1) /\ call[1].op = ADD) =>
        /\ err[1] \in {"nil", "AddDPToServiceSubscriber failed",
                       "AddDPToServiceSubscriber count tracking failed"}
        /\ err[1] = "AddDPToServiceSubscriber failed" => store = pre
        /\ err[1] = "AddDPToServiceSubscriber count tracking failed" =>
               /\ call[1].dp \notin Smembers(pre, CallKey(1))
               /\ store = Sadd(pre, CallKey(1), call[1].dp)
               /\ Counter(store, call[1].dp) = Counter(pre, call[1].dp)
               /\ Counter(pre, call[1].dp) = Cardinality(AssociatedPairs(pre, call[1].dp))
                      => Counter(store, call[1].dp) =
                             Cardinality(AssociatedPairs(store, call[1].dp)) - 1
        /\ err[1] = "nil" =>
               store = IF call[1].dp \in Smembers(pre, CallKey(1)) THEN pre
                       ELSE Incr(Sadd(pre, CallKey(1), call[1].dp), CounterKey(call[1].dp))

\* A failed Incr on a delivery point that another pair already referenced.
C9_Witness ==
    /\ Idle(1) /\ call[1].op = ADD
    /\ err[1] = "AddDPToServiceSubscriber count tracking failed"
    /\ Counter(pre, call[1].dp) = 1
    /\ Cardinality(AssociatedPairs(store, call[1].dp)) = 2

---------------------------------------------------------------------------
(* C10 *)

\* The keyspace after the Srem and the Decr of removeAssociation.
AfterDecr(p) == Decr(Srem(pre, CallKey(p), call[p].dp), CounterKey(call[p].dp))

\* C10: removeAssociation never rolls back: after a failed Decr the member
\* stays removed and the counter is unchanged; after a failed Del of the
\* counter key the decremented value (<= 0) and the record remain; after a
\* failed Del of the record the counter key is gone and the record
\* remains; each reports failure, and success is reported only when every
\* call of the handler took effect.
C10_RemoveNeverRollsBack ==
    (Idle(1) /\ call[1].op = REMOVE) =>
        /\ err[1] \in {"nil", "Removing the delivery point pointer failed",
                       "Failed to decrement number of subscribers",
                       "Failed to remove counter",
                       "Failed to remove delivery point info"}
        /\ err[1] = "Failed to decrement number of subscribers" =>
               /\ call[1].dp \in Smembers(pre, CallKey(1))
               /\ store = Srem(pre, CallKey(1), call[1].dp)
        /\ err[1] = "Failed to remove counter" =>
               /\ store = AfterDecr(1)
               /\ store[CounterKey(call[1].dp)] = Counter(pre, call[1].dp) - 1
               /\ store[CounterKey(call[1].dp)] <= 0
               /\ HasRecord(pre, call[1].dp) => HasRecord(store, call[1].dp)
        /\ err[1] = "Failed to remove delivery point info" =>
               /\ store = Del(AfterDecr(1), CounterKey(call[1].dp))
               /\ ~HasCounter(store, call[1].dp)
               /\ HasRecord(pre, call[1].dp) => HasRecord(store, call[1].dp)
        /\ err[1] = "nil" =>
               store = IF call[1].dp \notin Smembers(pre, CallKey(1)) THEN pre
                       ELSE IF Counter(pre, call[1].dp) - 1 > 0 THEN AfterDecr(1)
                       ELSE Del(Del(AfterDecr(1), CounterKey(call[1].dp)),
                                DeliveryPointKey(call[1].dp))

\* The record's Del failed after the counter key's Del succeeded.
C10_Witness ==
    /\ Idle(1) /\ call[1].op = REMOVE
    /\ err[1] = "Failed to remove delivery point info"
    /\ HasRecord(store, call[1].dp)
    /\ HasCounter(pre, call[1].dp)

---------------------------------------------------------------------------
(* C11 *)

LIST == "GetDeliveryPointsNameByServiceSubscriber"

\* The caller's last call was a completed wildcard lookup.
WildcardListed ==
    /\ Idle(1) /\ call[1].op = LIST
    /\ ContainsStar(call[1].srv) \/ ContainsStar(call[1].sub)

\* The pairs whose key matches the lookup and whose set has members.
MatchedPairs ==
    {pr \in Services \X Subscribers :
        /\ Match(CallKey(1), ServiceSubscriberKey(pr[1], pr[2]))
        /\ Membership(store, pr[1], pr[2]) # {}}

\* The existing keys that match the lookup.
MatchedKeys == Keys(store, CallKey(1))

---------------------------------------------------------------------------
(* C14 *)

FLUSH == "FlushCache"

\* C14: no handler issues a client call again, and none issues a call
\* after one that faulted: a running handler has issued exactly the calls
\* before its position, all of which succeeded; a finished add has issued
\* 1 or 2 calls, a finished remove 1 to 4, a finished flush exactly 1, the
\* error returned names the call that faulted, and that call was the last.
C14_NoRetry ==
    /\ pc[1] \in {"Incr", "Decr"} => obs.ncalls = 1 /\ ~obs.fault
    /\ pc[1] = "DelCounter" => obs.ncalls = 2 /\ ~obs.fault
    /\ pc[1] = "DelRecord" => obs.ncalls = 3 /\ ~obs.fault
    /\ Idle(1) => (obs.fault <=> err[1] # "nil")
    /\ Idle(1) /\ call[1].op = ADD =>
           /\ obs.ncalls \in 1..2
           /\ err[1] = "AddDPToServiceSubscriber failed" => obs.ncalls = 1
           /\ err[1] = "AddDPToServiceSubscriber count tracking failed" => obs.ncalls = 2
    /\ Idle(1) /\ call[1].op = REMOVE =>
           /\ obs.ncalls \in 1..4
           /\ err[1] = "Removing the delivery point pointer failed" => obs.ncalls = 1
           /\ err[1] = "Failed to decrement number of subscribers" => obs.ncalls = 2
           /\ err[1] = "Failed to remove counter" => obs.ncalls = 3
           /\ err[1] = "Failed to remove delivery point info" => obs.ncalls = 4
    /\ Idle(1) /\ call[1].op = FLUSH => obs.ncalls = 1

\* A remove whose fourth client call faulted returned after 4 calls.
C14_Witness ==
    /\ Idle(1) /\ call[1].op = REMOVE
    /\ obs.ncalls = 4 /\ obs.fault
    /\ err[1] = "Failed to remove delivery point info"

---------------------------------------------------------------------------
(* C19 *)

\* The caller's running or last handler repeats a call that returned e.
RetryAfter(op, e) == repeat /\ call[1].op = op /\ obs.prevErr = e

\* C19: repeating an add whose Sadd succeeded and whose Incr faulted, or a
\* remove whose Srem succeeded and whose Decr faulted, ends after its
\* first client call; when that call does not fault it returns success
\* and the keyspace (the counter, the sets, the records) is as it was
\* before the retry.
C19_RetryDoesNotRepair ==
    (\/ RetryAfter(ADD, "AddDPToServiceSubscriber count tracking failed")
     \/ RetryAfter(REMOVE, "Failed to decrement number of subscribers"))
    => (/\ Idle(1)
        /\ obs.ncalls = 1
        /\ store = pre
        /\ ~obs.fault => err[1] = "nil")

\* The only association of d1 was removed with a faulted Decr and the
\* remove repeated without fault: the counter is still 1, the record is
\* still stored, no pair references d1.
C19_Witness ==
    /\ RetryAfter(REMOVE, "Failed to decrement number of subscribers")
    /\ Idle(1) /\ ~obs.fault /\ err[1] = "nil"
    /\ call[1].dp = <<"d1">>
    /\ Counter(store, <<"d1">>) = 1
    /\ HasRecord(store, <<"d1">>)
    /\ AssociatedPairs(store, <<"d1">>) = {}

---------------------------------------------------------------------------
(* C18 *)

\* The caller's last call was a remove that took dp out of the set.
Removed(dp) ==
    /\ Idle(1) /\ call[1].op = REMOVE /\ err[1] = "nil"
    /\ call[1].dp = dp
    /\ dp \in Smembers(pre, CallKey(1))

\* C18: after a remove that took dp out of a set, if other (service,
\* subscriber) pairs still have dp in their sets then the counter key
\* exists with their number as its value and the record is kept; the
\* record is deleted if and only if no pair is left.
C18_CounterAndRecordKeptUnlessLast ==
    \A dp \in DeliveryPoints :
        Removed(dp) =>
            LET remaining == AssociatedPairs(store, dp)
            IN  /\ remaining # {} =>
                       /\ HasCounter(store, dp)
                       /\ Counter(store, dp) = Cardinality(remaining)
                       /\ Counter(store, dp) >= 1
                       /\ HasRecord(pre, dp) => HasRecord(store, dp)
                /\ HasRecord(pre, dp) =>
                       (~HasRecord(store, dp) <=> remaining = {})

\* The same counted in set keys instead of pairs: it holds.
C18_ByKeys ==
    \A dp \in DeliveryPoints :
        Removed(dp) =>
            LET remaining == AssociatedKeys(store, dp)
            IN  /\ remaining # {} =>
                       /\ HasCounter(store, dp)
                       /\ Counter(store, dp) = Cardinality(remaining)
                       /\ Counter(store, dp) >= 1
                       /\ HasRecord(pre, dp) => HasRecord(store, dp)
                /\ HasRecord(pre, dp) =>
                       (~HasRecord(store, dp) <=> remaining = {})

---------------------------------------------------------------------------
(* C12 *)

\* The assignment key the caller's last call named.
CallAssignKey == ServiceDeliveryPointKey(call[1].srv, call[1].dp)

\* C12: a read of the assignment of (service, delivery point) returns the
\* name of the last set for that pair that no clear for that pair
\* followed, and the empty name if there is none; calls on other pairs do
\* not change it.
C12_GetReflectsLastSetOrClear ==
    Idle(1) /\ call[1].op = GETPSP /\ err[1] = "nil" =>
        LET last == obs.assigned[<<call[1].srv, call[1].dp>>]
        IN  ret[1][1] = (IF last = <<>> THEN <<>> ELSE last[1])

\* What holds instead: the read returns what the store has under the key
\* composed of the two names.
C12_GetReflectsKey ==
    Idle(1) /\ call[1].op = GETPSP /\ err[1] = "nil" =>
        ret[1][1] = (IF CallAssignKey \in DOMAIN store THEN store[CallAssignKey] ELSE <<>>)

---------------------------------------------------------------------------
(* C15 *)

\* C15: clearing an assignment that does not exist returns success and
\* leaves the keyspace as it was; reading one returns the empty name and
\* no error; set, clear and read return an error exactly when their
\* client call faulted.
C15_AbsentAssignmentIsNotAnError ==
    /\ Idle(1) /\ call[1].op = CLEARPSP /\ ~obs.fault /\ CallAssignKey \notin DOMAIN pre =>
           err[1] = "nil" /\ store = pre
    /\ Idle(1) /\ call[1].op = GETPSP /\ ~obs.fault /\ CallAssignKey \notin DOMAIN pre =>
           err[1] = "nil" /\ ret[1] = << <<>> >> /\ store = pre
    /\ Idle(1) /\ call[1].op \in {SETPSP, CLEARPSP, GETPSP} =>
           (err[1] # "nil" <=> obs.fault)

\* A clear of an absent assignment succeeded while another assignment is
\* stored.
C15_Witness ==
    /\ Idle(1) /\ call[1].op = CLEARPSP /\ ~obs.fault
    /\ CallAssignKey \notin DOMAIN pre
    /\ err[1] = "nil"
    /\ store = pre /\ store # EmptyStore

---------------------------------------------------------------------------
(* C16 *)

\* The caller's last call was a read of an entity record: its key.
ReadEntity == Idle(1) /\ call[1].op \in {"GetDeliveryPoint", "GetPushServiceProvider"}
ReadKey ==
    IF call[1].op = "GetDeliveryPoint" THEN DeliveryPointKey(call[1].dp)
    ELSE PushServiceProviderKey(call[1].psp)

\* C16: a read of a delivery point or push service provider record ends
\* in one of three ways that differ in what is returned: with no value
\* under the key, no entity and no error; with a faulted client call, no
\* entity and the handler's error; with a value that cannot be decoded, no
\* entity and the decoding error.  A decodable value is returned as its
\* entity without error.
C16_ThreeOutcomes ==
    ReadEntity =>
        LET b == Get(pre, ReadKey)
        IN  /\ store = pre
            /\ obs.fault =>
                   /\ ret[1] = <<>>
                   /\ err[1] \in {"GetDeliveryPoint failed", "GetPushServiceProvider failed"}
            /\ ~obs.fault /\ b = <<>> => ret[1] = <<>> /\ err[1] = "nil"
            /\ ~obs.fault /\ b = <<Malformed>> => ret[1] = <<>> /\ err[1] = "decode"
            /\ ~obs.fault /\ b # <<>> /\ b # <<Malformed>> =>
                   /\ err[1] = "nil"
                   /\ ret[1] = <<[name |-> b[1][1], data |-> b[1][2]]>>

\* A delivery point whose record holds malformed bytes was read.
C16_Witness ==
    /\ ReadEntity /\ call[1].op = "GetDeliveryPoint"
    /\ ~obs.fault
    /\ Get(pre, ReadKey) = <<Malformed>>
    /\ ret[1] = <<>> /\ err[1] = "decode"

---------------------------------------------------------------------------
(* C13 *)

\* The caller's last call added a provider to a service or removed one.
ChangedService == Idle(1) /\ call[1].op \in {ADDPSP, REMOVEPSP}

\* C13: adding a provider to a service and removing one change at most
\* the key of that service's set of names: every other key (provider
\* records, delivery point records, counters, associations, assignments,
\* other services' sets) has the value it had, so a provider's record
\* stays when its last reference goes.
C13_ServiceIndexFrame ==
    ChangedService =>
        /\ \A k \in (DOMAIN store) \cup (DOMAIN pre) :
               k # ServiceKey(call[1].srv) => Get(store, k) = Get(pre, k)
        /\ Get(store, PushServiceProviderKey(call[1].psp))
               = Get(pre, PushServiceProviderKey(call[1].psp))

\* The last reference to a provider was removed and its record is stored.
C13_Witness ==
    /\ ChangedService /\ call[1].op = REMOVEPSP /\ err[1] = "nil"
    /\ call[1].psp \in Smembers(pre, ServiceKey(call[1].srv))
    /\ \A srv \in Services : call[1].psp \notin Smembers(store, ServiceKey(srv))
    /\ PushServiceProviderKey(call[1].psp) \in DOMAIN store

---------------------------------------------------------------------------
(* C17 *)

\* C17: listing the providers of a service returns the names added to it
\* and not removed since, each once, and nil when there are none; it
\* returns no error unless its client call faulted.
C17_ListIsAddedMinusRemoved ==
    Idle(1) /\ call[1].op = LISTPSP =>
        LET m == obs.members[call[1].srv]
        IN  /\ err[1] # "nil" <=> obs.fault
            /\ err[1] = "nil" =>
                   ret[1] = (IF m = {} THEN <<>> ELSE <<SetToBag(m)>>)

\* A service with two providers was listed while the other service has
\* one of them.
C17_Witness ==
    /\ Idle(1) /\ call[1].op = LISTPSP /\ err[1] = "nil"
    /\ call[1].srv = <<"app1", ":", "x">>
    /\ ret[1] = <<SetToBag(PushServiceProviders)>>
    /\ obs.members[<<"app1">>] = {<<"pspB">>}

---------------------------------------------------------------------------
(* C20 *)

\* The caller's last call was an add or a remove of an association.
ChangedAssociation == Idle(1) /\ call[1].op \in {ADD, REMOVE}

\* The keys of assignments, services' provider sets and provider records.
ProviderKeys(st) ==
    {k \in DOMAIN st : k[1] \in {"srv.dp-2-psp", "srv-2-psp", "push.service.provider"}}

\* C20: an add or remove of the association (service, subscriber, dp)
\* leaves the membership set of every other (service, subscriber) pair,
\* the counter and record of every other delivery point, and every
\* assignment, service's provider set and provider record as they were.
C20_AssociationFrame ==
    ChangedAssociation =>
        /\ \A pr \in Services \X Subscribers :
               pr # <<call[1].srv, call[1].sub>> =>
                   Membership(store, pr[1], pr[2]) = Membership(pre, pr[1], pr[2])
        /\ \A dp \in FewDeliveryPoints \ {call[1].dp} :
               /\ Get(store, CounterKey(dp)) = Get(pre, CounterKey(dp))
               /\ Get(store, DeliveryPointKey(dp)) = Get(pre, DeliveryPointKey(dp))
        /\ \A k \in ProviderKeys(store) \cup ProviderKeys(pre) :
               Get(store, k) = Get(pre, k)

\* What holds instead: every key other than the set key composed of the
\* two names, dp's counter key and dp's record key has the value it had.
C20_FrameByKeys ==
    ChangedAssociation =>
        \A k \in (DOMAIN store) \cup (DOMAIN pre) :
            k \notin {CallKey(1), CounterKey(call[1].dp), DeliveryPointKey(call[1].dp)}
                => Get(store, k) = Get(pre, k)

====
